---- MODULE Spec2Model ----
(***************************************************************************)
(* Login / token issuance of luizbraga_baseapi: LoginSerializer            *)
(* (serializers.py), LoginAuthToken.post (views.py), ApiUser (models.py)   *)
(* and ApiUserSerializer.list_permissions (serializers.py).                *)
(*                                                                         *)
(* Strings are sequences of one-character strings, so that the email       *)
(* syntax check is computed on the characters.  Python's None is the       *)
(* value None where a string is expected and NoUser where a user is.       *)
(***************************************************************************)
EXTENDS Integers, Sequences, FiniteSets, TLC

\* ------------------------------------------------------------------ bounds
NumClients == 2
MaxPerms == 2

Clients == 1..NumClients

\* ------------------------------------------------------------- the values
None == <<"None">>
NoUser == "None"

HTTP_200_OK == 200
HTTP_400_BAD_REQUEST == 400
HTTP_500_INTERNAL_SERVER_ERROR == 500

\* Identifiers a caller may send.
Str_b == <<"b">>
Str_z == <<"z">>
Mail_b == <<"b", "@", "x", ".", "i", "o">>
Mail_c == <<"c", "@", "x", ".", "i", "o">>
Mail_z == <<"z", "@", "x", ".", "i", "o">>
Mail_bad == <<"b", "@", "x">>
Blank == <<>>

Pw_ok == <<"s">>
Pw_wrong == <<"w">>

\* The values a login payload draws each key from (None: the key is absent).
Usernames == {None, Blank, Str_b, Str_z, Mail_b, Mail_c, Mail_z}
Emails == {None, Mail_b, Mail_bad}
Passwords == {None, Blank, Pw_ok, Pw_wrong}

Payloads == [username : Usernames, email : Emails, password : Passwords]

\* ------------------------------------------------- the identity store
\* ApiUserManager._create_user: set_password stores a hash, never the password.
make_password(raw) == <<"h", "$">> \o raw

check_password(raw, encoded) == make_password(raw) = encoded

USERNAME_FIELD == "email"

UserIds == {"u_b", "u_c"}

\* The rows of the ApiUser table: u_b is active, u_c was deactivated.
ApiUser ==
    [u \in UserIds |->
        IF u = "u_b"
        THEN [username |-> Str_b, email |-> Mail_b, password |-> make_password(Pw_ok),
              first_name |-> <<"A">>, last_name |-> <<"L">>,
              is_active |-> TRUE, is_staff |-> FALSE, is_superuser |-> FALSE]
        ELSE [username |-> <<"c">>, email |-> Mail_c, password |-> make_password(Pw_ok),
              first_name |-> <<"C">>, last_name |-> <<>>,
              is_active |-> FALSE, is_staff |-> FALSE, is_superuser |-> FALSE]]

\* ------------------------------------------- django validate_email
IndexesOf(ch, s) == {i \in 1..Len(s) : s[i] = ch}

Max(S) == CHOOSE m \in S : \A n \in S : n <= m

\* A dot-atom: not empty, no "@", no dot first, last or doubled.
DotAtom(s) ==
    /\ Len(s) > 0
    /\ IndexesOf("@", s) = {}
    /\ s[1] # "."
    /\ s[Len(s)] # "."
    /\ \A i \in 1..(Len(s) - 1) : ~(s[i] = "." /\ s[i + 1] = ".")

\* A domain: a dot-atom with at least two labels, the last of 2 or more characters.
DomainPart(s) ==
    /\ DotAtom(s)
    /\ IndexesOf(".", s) # {}
    /\ Len(s) - Max(IndexesOf(".", s)) >= 2

\* TRUE iff validate_email(value) returns without raising.
validate_email(value) ==
    /\ value # None
    /\ Len(value) > 0
    /\ IndexesOf("@", value) # {}
    /\ LET at == Max(IndexesOf("@", value))
       IN  /\ DotAtom(SubSeq(value, 1, at - 1))
           /\ DomainPart(SubSeq(value, at + 1, Len(value)))

\* ------------------------------------------------ errors and exceptions
DRFValidationError == "rest_framework.exceptions.ValidationError"
DjangoValidationError == "django.core.exceptions.ValidationError"

NoException == [class |-> "none", items |-> {}]

ErrorDetail(sub, message, code) == [sub |-> sub, message |-> message, code |-> code]

Raise(class, items) == [class |-> class, items |-> items]

\* An entry of serializer.errors: the top-level key, and for an item that is
\* itself a dict the key inside it (sub).
FieldError(key, detail) ==
    [key |-> key, sub |-> detail.sub, message |-> detail.message, code |-> detail.code]

\* rest_framework as_serializer_error: what validate() raises as a list or a
\* string becomes non-field errors.
as_serializer_error(exc) == {FieldError("non_field_errors", d) : d \in exc.items}

\* Python truthiness of a string-or-None.
Falsy(v) == v = None \/ v = Blank

\* --------------------------------------------------- LoginSerializer
\* The declared fields, run before validate(): username and email are
\* optional and may be blank, email must parse, password is required.
username_field_errors(data) == {}

email_field_errors(data) ==
    IF data.email = None \/ data.email = Blank \/ validate_email(data.email)
    THEN {}
    ELSE {FieldError("email", ErrorDetail("", "Enter a valid email address.", "invalid"))}

\* A mutation of password_field_errors: the field declared required=False,
\* allow_blank=True.
password_field_errors_optional(data) == {}

password_field_errors(data) ==
    IF data.password = None
    THEN {FieldError("password", ErrorDetail("", "This field is required.", "required"))}
    ELSE IF data.password = Blank
         THEN {FieldError("password", ErrorDetail("", "This field may not be blank.", "blank"))}
         ELSE {}

to_internal_value_errors(data) ==
    username_field_errors(data) \cup email_field_errors(data) \cup password_field_errors(data)

\* ModelBackend behind django.contrib.auth.authenticate: the lookup key is the
\* username keyword or else the keyword named USERNAME_FIELD.
authenticate(kw, value, password) ==
    LET username == IF kw = "username" \/ kw = USERNAME_FIELD THEN value ELSE None
        found == {u \in UserIds : ApiUser[u][USERNAME_FIELD] = username}
    IN  IF username = None \/ password = None \/ found = {}
        THEN NoUser
        ELSE LET u == CHOOSE x \in found : TRUE
             IN  IF check_password(password, ApiUser[u].password) /\ ApiUser[u].is_active
                 THEN u
                 ELSE NoUser

Outcome(raised, user, calls) == [raised |-> raised, user |-> user, calls |-> calls]

Call(kw, value) == [kw |-> kw, value |-> value]

\* The exception validate_email(value) raises, NoException when it returns.
validate_email_raises(value) ==
    IF validate_email(value)
    THEN NoException
    ELSE Raise(DjangoValidationError,
               {ErrorDetail("", "Enter a valid email address.", "invalid")})

\* The class the except clause of _validate_username_email names.
ExceptClause == DRFValidationError

validate_username_email(username_email, password) ==
    LET msg == (IF Falsy(username_email)
                THEN {ErrorDetail("username", "required", "invalid")} ELSE {})
               \cup
               (IF Falsy(password)
                THEN {ErrorDetail("password", "required", "invalid")} ELSE {})
        probe == validate_email_raises(username_email)
    IN  IF msg # {}
        THEN Outcome(Raise(DRFValidationError, msg), NoUser, <<>>)
        ELSE IF probe = NoException
             THEN Outcome(NoException, authenticate("email", username_email, password),
                          <<Call("email", username_email)>>)
             ELSE IF probe.class = ExceptClause
                  THEN Outcome(NoException, authenticate("user", username_email, password),
                               <<Call("user", username_email)>>)
                  ELSE Outcome(probe, NoUser, <<>>)

\* data.get('username', None): the identifier validate() reads.
user_email_of(data) == data.username

validate(data) ==
    LET r == validate_username_email(user_email_of(data), data.password)
    IN  IF r.raised # NoException
        THEN r
        ELSE IF r.user = NoUser
             THEN Outcome(Raise(DRFValidationError,
                                {ErrorDetail("", "User not found", "authorization")}),
                          NoUser, r.calls)
             ELSE r

\* serializer.is_valid(): the fields first, validate() only when all passed.
Validation(errors, user, calls) == [errors |-> errors, user |-> user, calls |-> calls]

is_valid(data) ==
    IF to_internal_value_errors(data) # {}
    THEN Validation(to_internal_value_errors(data), NoUser, <<>>)
    ELSE LET r == validate(data)
         IN  IF r.raised # NoException
             THEN Validation(as_serializer_error(r.raised), NoUser, r.calls)
             ELSE Validation({}, r.user, r.calls)

\* ------------------------------------------------- ApiUserSerializer
PermissionCodes == {<<"perm", i>> : i \in 1..MaxPerms}

VARIABLES
    tokens,                 \* the Token table: rows [key, user]
    nextKey,                \* the number of keys Token.generate_key has drawn, plus one
    sessions,               \* users for whom login() established a session
    group_perms,            \* user -> what get_group_permissions() returns
    user_perms,             \* user -> what get_user_permissions() returns
    pc,                     \* client -> where its request is in LoginAuthToken.post
    request,                \* client -> the payload of its request in progress
    frame,                  \* client -> the locals of post: user, token, created, calls
    user_serializer_data,   \* the last value of ApiUserSerializer(...).data
    lastExchange,           \* the exchange the latest step completed, NoExchange if none
    firstToken,             \* user -> the token of the first 200 answered for the user
    issued                  \* user -> the tokens callers have received for the user

vars == <<tokens, nextKey, sessions, group_perms, user_perms, pc, request, frame,
          user_serializer_data, lastExchange, firstToken, issued>>

\* Every arrangement of the set S in a sequence: the orders in which a for
\* loop may visit a Python set.
IterationOrders(S) ==
    {q \in [1..Cardinality(S) -> S] : \A i, j \in 1..Cardinality(S) : q[i] = q[j] => i = j}

RECURSIVE AppendEach(_, _)
\* for permission in <iterable>: permissions.append(permission)
AppendEach(iterable, permissions) ==
    IF iterable = <<>>
    THEN permissions
    ELSE AppendEach(Tail(iterable), Append(permissions, Head(iterable)))

\* A mutation of permission_iterables: the two sets are chained, not united.
permission_iterables_chained(user) ==
    {g \o p : g \in IterationOrders(group_perms[user]), p \in IterationOrders(user_perms[user])}

\* What the loop of list_permissions may iterate over.
permission_iterables(user) == IterationOrders(group_perms[user] \cup user_perms[user])

\* The values list_permissions(user) may return.
list_permissions(user) == {AppendEach(it, <<>>) : it \in permission_iterables(user)}

RECURSIVE LStrip(_)
LStrip(s) == IF s # <<>> /\ Head(s) = " " THEN LStrip(Tail(s)) ELSE s

RECURSIVE RStrip(_)
RStrip(s) == IF s # <<>> /\ s[Len(s)] = " " THEN RStrip(SubSeq(s, 1, Len(s) - 1)) ELSE s

\* ApiUser.full_name: ('%s %s' % (first_name, last_name)).strip()
full_name(u) == LStrip(RStrip(ApiUser[u].first_name \o <<" ">> \o ApiUser[u].last_name))

\* ApiUserSerializer(instance=user).data, for one return value of list_permissions.
ApiUserSerializerData(u, permissions) ==
    [id |-> u, username |-> ApiUser[u].username, email |-> ApiUser[u].email,
     first_name |-> ApiUser[u].first_name, last_name |-> ApiUser[u].last_name,
     full_name |-> full_name(u), is_active |-> ApiUser[u].is_active,
     is_staff |-> ApiUser[u].is_staff, is_superuser |-> ApiUser[u].is_superuser,
     permissions |-> permissions]

NoData == [id |-> NoUser]

\* ------------------------------------------------ LoginAuthToken.post
NoFrame == [user |-> NoUser, token |-> None, created |-> FALSE, calls |-> <<>>]

NoPayload == [username |-> None, email |-> None, password |-> None]

Response(status, errors, token, data) ==
    [status |-> status, errors |-> errors, token |-> token, data |-> data]

\* What a finished request leaves behind: the payload, the response, and of the
\* run of post the authenticate calls made, whether get_or_create inserted a
\* row, and whether login() raised.
Exchange(data, response, fr, login_raised) ==
    [request |-> data, response |-> response, user |-> fr.user,
     calls |-> fr.calls, created |-> fr.created, login_raised |-> login_raised]

NoExchange == Exchange(NoPayload, Response(0, {}, None, NoData), NoFrame, FALSE)

generate_key(n) == <<"key", n>>

\* A mutation of UniqueViolation: Token.user carries no unique constraint.
UniqueViolation_unconstrained(user) == FALSE

\* The one-to-one constraint of Token.user: TRUE iff an insert for user violates it.
UniqueViolation(user) == \E t \in tokens : t.user = user

TokensOf(user) == {t \in tokens : t.user = user}

\* A mutation of ExistingKey: the fetch hands out a newly generated key.
ExistingKey_regenerates(user) == generate_key(nextKey)

\* self.get(user=user).key, for a user who has a token.
ExistingKey(user) == (CHOOSE t \in TokensOf(user) : TRUE).key

Init ==
    /\ tokens = {}
    /\ nextKey = 1
    /\ sessions = {}
    /\ group_perms = [u \in UserIds |-> {<<"perm", 1>>}]
    /\ user_perms = [u \in UserIds |-> IF u = "u_b" THEN PermissionCodes ELSE {}]
    /\ pc = [c \in Clients |-> "idle"]
    /\ request = [c \in Clients |-> NoPayload]
    /\ frame = [c \in Clients |-> NoFrame]
    /\ user_serializer_data = NoData
    /\ lastExchange = NoExchange
    /\ firstToken = [u \in UserIds |-> None]
    /\ issued = [u \in UserIds |-> {}]

\* post, lines 18-20 and 31-32: the serializer runs; an invalid payload is
\* answered 400 with serializer.errors, a valid one goes on to get_or_create.
Post(c, data) ==
    /\ pc[c] = "idle"
    /\ LET v == is_valid(data)
           fr == [NoFrame EXCEPT !.user = v.user, !.calls = v.calls]
       IN  IF v.errors = {}
           THEN /\ pc' = [pc EXCEPT ![c] = "get"]
                /\ request' = [request EXCEPT ![c] = data]
                /\ frame' = [frame EXCEPT ![c] = fr]
                /\ lastExchange' = NoExchange
           ELSE /\ lastExchange' =
                       Exchange(data, Response(HTTP_400_BAD_REQUEST, v.errors, None, NoData),
                                fr, FALSE)
                /\ UNCHANGED <<pc, request, frame>>
    /\ UNCHANGED <<tokens, nextKey, sessions, group_perms, user_perms,
                   user_serializer_data, firstToken, issued>>

\* get_or_create, first step: self.get(user=user).
TokenGet(c) ==
    /\ pc[c] = "get"
    /\ IF TokensOf(frame[c].user) # {}
       THEN /\ frame' = [frame EXCEPT ![c].token = ExistingKey(frame[c].user),
                                       ![c].created = FALSE]
            /\ pc' = [pc EXCEPT ![c] = "respond"]
       ELSE /\ pc' = [pc EXCEPT ![c] = "create"]
            /\ UNCHANGED frame
    /\ lastExchange' = NoExchange
    /\ UNCHANGED <<tokens, nextKey, sessions, group_perms, user_perms, request,
                   user_serializer_data, firstToken, issued>>

\* get_or_create, second step: self.create(user=user) in a savepoint; the
\* insert raises IntegrityError when the user already has a token.
TokenCreate(c) ==
    /\ pc[c] = "create"
    /\ nextKey' = nextKey + 1
    /\ IF UniqueViolation(frame[c].user)
       THEN /\ pc' = [pc EXCEPT ![c] = "reget"]
            /\ UNCHANGED <<tokens, frame>>
       ELSE /\ tokens' = tokens \cup {[key |-> generate_key(nextKey), user |-> frame[c].user]}
            /\ frame' = [frame EXCEPT ![c].token = generate_key(nextKey), ![c].created = TRUE]
            /\ pc' = [pc EXCEPT ![c] = "respond"]
    /\ lastExchange' = NoExchange
    /\ UNCHANGED <<sessions, group_perms, user_perms, request,
                   user_serializer_data, firstToken, issued>>

\* get_or_create, third step: after IntegrityError, self.get(user=user) again.
TokenReget(c) ==
    /\ pc[c] = "reget"
    /\ TokensOf(frame[c].user) # {}
    /\ frame' = [frame EXCEPT ![c].token = ExistingKey(frame[c].user),
                               ![c].created = FALSE]
    /\ pc' = [pc EXCEPT ![c] = "respond"]
    /\ lastExchange' = NoExchange
    /\ UNCHANGED <<tokens, nextKey, sessions, group_perms, user_perms, request,
                   user_serializer_data, firstToken, issued>>

\* post, lines 22-30: the user is serialized, login() runs, and the response
\* is returned; an exception of login() leaves post and is answered 500.
Respond(c, login_raises) ==
    /\ pc[c] = "respond"
    /\ \E permissions \in list_permissions(frame[c].user) :
       LET u == frame[c].user
           data == ApiUserSerializerData(u, permissions)
       IN  /\ user_serializer_data' = data
           /\ IF login_raises
              THEN /\ lastExchange' =
                          Exchange(request[c],
                                   Response(HTTP_500_INTERNAL_SERVER_ERROR, {}, None, NoData),
                                   frame[c], TRUE)
                   /\ UNCHANGED <<sessions, firstToken, issued>>
              ELSE /\ lastExchange' =
                          Exchange(request[c],
                                   Response(HTTP_200_OK, {}, frame[c].token, data),
                                   frame[c], FALSE)
                   /\ sessions' = sessions \cup {u}
                   /\ firstToken' = IF firstToken[u] = None
                                    THEN [firstToken EXCEPT ![u] = frame[c].token]
                                    ELSE firstToken
                   /\ issued' = [issued EXCEPT ![u] = @ \cup {frame[c].token}]
    /\ pc' = [pc EXCEPT ![c] = "idle"]
    /\ request' = [request EXCEPT ![c] = NoPayload]
    /\ frame' = [frame EXCEPT ![c] = NoFrame]
    /\ UNCHANGED <<tokens, nextKey, group_perms, user_perms>>

\* The requests that may arrive: any payload while no request is in progress,
\* and a login by email while one is (a request the serializer rejects is
\* answered in the step it arrives in and reads no state another request
\* writes, so the order it takes among the steps of the others changes nothing).
Quiet == \A c \in Clients : pc[c] = "idle"

ConcurrentPayloads ==
    {p \in Payloads : /\ p.username \in {Mail_b, Mail_z, Str_b}
                      /\ p.email = None
                      /\ p.password \in {Pw_ok, Pw_wrong}}

Arrivals == IF Quiet THEN Payloads ELSE ConcurrentPayloads

Next ==
    \/ \E c \in Clients, data \in Arrivals : Post(c, data)
    \/ \E c \in Clients : TokenGet(c)
    \/ \E c \in Clients : TokenCreate(c)
    \/ \E c \in Clients : TokenReget(c)
    \/ \E c \in Clients, login_raises \in BOOLEAN : Respond(c, login_raises)

Spec == Init /\ [][Next]_vars

\* ------------------------------- the serializer on every permission assignment
InitPerms ==
    /\ tokens = {}
    /\ nextKey = 1
    /\ sessions = {}
    /\ group_perms \in [UserIds -> SUBSET PermissionCodes]
    /\ user_perms \in [UserIds -> SUBSET PermissionCodes]
    /\ pc = [c \in Clients |-> "idle"]
    /\ request = [c \in Clients |-> NoPayload]
    /\ frame = [c \in Clients |-> NoFrame]
    /\ user_serializer_data = NoData
    /\ lastExchange = NoExchange
    /\ firstToken = [u \in UserIds |-> None]
    /\ issued = [u \in UserIds |-> {}]

\* ApiUserSerializer(instance=u).data
Serialize(u) ==
    /\ \E permissions \in list_permissions(u) :
           user_serializer_data' = ApiUserSerializerData(u, permissions)
    /\ UNCHANGED <<tokens, nextKey, sessions, group_perms, user_perms, pc, request, frame,
                   lastExchange, firstToken, issued>>

NextPerms == \E u \in UserIds : Serialize(u)

SpecPerms == InitPerms /\ [][NextPerms]_vars

\* ------------------------------------------------------------- the claims
Answered == lastExchange # NoExchange

Rq == lastExchange.request

Rs == lastExchange.response

\* The payload carries the email and the password of the active user u.
CredentialsOf(data, ident, u) ==
    /\ ApiUser[u].is_active
    /\ ident = ApiUser[u].email
    /\ data.password # None
    /\ check_password(data.password, ApiUser[u].password)

\* The declared fields of the payload pass, so that validate() runs.
WellFormed(data) == to_internal_value_errors(data) = {}

AuthorizationError ==
    {FieldError("non_field_errors", ErrorDetail("", "User not found", "authorization"))}

\* C1: a login with the email and password of an active user, whose login()
\* call returns, is answered 200 with a token; every 200 for a user carries
\* the token of the first 200 for that user; and the Token table never holds
\* more than one row for a user.
C1_TokenIssuanceIdempotent ==
    /\ \A u \in UserIds : Cardinality(TokensOf(u)) <= 1
    /\ Answered =>
         /\ \A u \in UserIds :
              (CredentialsOf(Rq, Rq.username, u) /\ WellFormed(Rq) /\ ~lastExchange.login_raised)
                 => (Rs.status = HTTP_200_OK /\ lastExchange.user = u)
         /\ Rs.status = HTTP_200_OK =>
              /\ Rs.token # None
              /\ Rs.token = firstToken[lastExchange.user]

\* C1 witness: a later login of the user is answered 200 with a token that
\* get_or_create fetched instead of creating.
C1_Witness ==
    /\ Answered
    /\ Rs.status = HTTP_200_OK
    /\ ~lastExchange.created
    /\ Rs.token = firstToken[lastExchange.user]
    /\ CredentialsOf(Rq, Rq.username, lastExchange.user)

\* C2: under every interleaving of the logins in progress, at most one Token
\* row is ever created for a user, every token a request holds or a caller
\* has received for the user is the key of that row, and so all callers
\* receive the same token.
C2_OneTokenUnderConcurrency ==
    \A u \in UserIds :
        /\ Cardinality(TokensOf(u)) <= 1
        /\ Cardinality(issued[u]) <= 1
        /\ \A k \in issued[u] : \E t \in TokensOf(u) : t.key = k
        /\ \A c \in Clients :
             (frame[c].user = u /\ frame[c].token # None)
                => \E t \in TokensOf(u) : t.key = frame[c].token

\* C2 witness: two requests for the user both tried the insert (two keys were
\* generated), one lost, and a caller was answered 200 with the one row's key.
C2_Witness ==
    /\ Answered
    /\ Rs.status = HTTP_200_OK
    /\ ~lastExchange.created
    /\ nextKey > 2
    /\ Cardinality(TokensOf(lastExchange.user)) = 1
    /\ issued[lastExchange.user] = {Rs.token}

\* C3: a non-empty identifier that is not a valid email address, sent with a
\* non-empty password, is looked up as a username (authenticate is called
\* with the raw value) and the answer is 200 or the 'User not found' error.
C3_InvalidEmailRetriedAsUsername ==
    (/\ Answered
     /\ WellFormed(Rq)
     /\ ~Falsy(Rq.username)
     /\ ~validate_email(Rq.username)
     /\ ~lastExchange.login_raised)
        => /\ \E i \in 1..Len(lastExchange.calls) :
                /\ lastExchange.calls[i].kw \in {"user", "username"}
                /\ lastExchange.calls[i].value = Rq.username
           /\ \/ Rs.status = HTTP_200_OK
              \/ (Rs.status = HTTP_400_BAD_REQUEST /\ Rs.errors = AuthorizationError)

\* An error of the response is keyed to the field: at the top level of the
\* body, or inside an item of it.
Flags(field) == \E e \in Rs.errors : e.key = field \/ e.sub = field

\* C4: a payload with no identifier and no password is answered 400 with an
\* error keyed to username and an error keyed to password.
C4_BothFieldsFlagged ==
    (Answered /\ Rq.username = None /\ Rq.email = None /\ Rq.password = None)
        => (Rs.status = HTTP_400_BAD_REQUEST /\ Flags("username") /\ Flags("password"))

\* C5: a payload with an identifier and no password is answered 400 with a
\* field error keyed to password; authenticate is not called and no token is
\* created or fetched.
C5_MissingPasswordRejected ==
    (Answered /\ Rq.password = None /\ ~(Rq.username = None /\ Rq.email = None))
        => /\ Rs.status = HTTP_400_BAD_REQUEST
           /\ \E e \in Rs.errors : e.key = "password"
           /\ lastExchange.calls = <<>>
           /\ ~lastExchange.created
           /\ Rs.token = None

\* C5 witness: the email of the active user without a password was answered.
C5_Witness ==
    /\ Answered
    /\ Rq.username = Mail_b
    /\ Rq.password = None
    /\ Rs.status = HTTP_400_BAD_REQUEST

\* C6: a request whose login() call raised is still answered 200 with the
\* token and the user data.
C6_SessionFailureSwallowed ==
    (Answered /\ lastExchange.login_raised)
        => (Rs.status = HTTP_200_OK /\ Rs.token # None /\ Rs.data # NoData)

\* The identifier names a user (by email or by username) whose password the
\* payload does not carry.
WrongPassword(data) ==
    \E u \in UserIds :
        /\ data.username \in {ApiUser[u].email, ApiUser[u].username}
        /\ ~check_password(data.password, ApiUser[u].password)

\* The identifier names no user.
NoSuchUser(data) ==
    \A u \in UserIds : data.username \notin {ApiUser[u].email, ApiUser[u].username}

\* C7: a well-formed request with a wrong password for an existing user and
\* one whose identifier matches no user are answered alike, whether the
\* identifier is an email or a username: 400, 'User not found', code
\* 'authorization'.
C7_AuthFailuresAlike ==
    (/\ Answered
     /\ WellFormed(Rq)
     /\ ~Falsy(Rq.username)
     /\ (WrongPassword(Rq) \/ NoSuchUser(Rq)))
        => (Rs.status = HTTP_400_BAD_REQUEST /\ Rs.errors = AuthorizationError)

\* C8: the identifier is read from username, or from email when username is
\* absent: a payload with only the email and the password of an active user
\* logs that user in, and with both keys the value under username is used.
C8_EmailKeyAlternative ==
    (Answered /\ WellFormed(Rq) /\ ~lastExchange.login_raised)
        => /\ \A u \in UserIds :
                (Rq.username = None /\ CredentialsOf(Rq, Rq.email, u))
                   => (Rs.status = HTTP_200_OK /\ lastExchange.user = u)
           /\ (Rq.username # None /\ Rq.email # None)
                => \A i \in 1..Len(lastExchange.calls) :
                      lastExchange.calls[i].value = Rq.username

\* C9: a request answered with a failure leaves the Token table and the
\* sessions as they were and has created no token, and a request that
\* created a token is answered 200.
C9_NoPartialSuccess ==
    [][(lastExchange' # NoExchange)
          => /\ (lastExchange'.response.status # HTTP_200_OK)
                  => (tokens' = tokens /\ sessions' = sessions /\ ~lastExchange'.created)
             /\ lastExchange'.created => (lastExchange'.response.status = HTTP_200_OK)]_vars

\* C10: the permissions of the serialized user are the codes of the union of
\* the group permissions and the user permissions, each once.
C10_PermissionsAreUnion ==
    user_serializer_data # NoData =>
        LET u == user_serializer_data.id
            ps == user_serializer_data.permissions
        IN  /\ {ps[i] : i \in 1..Len(ps)} = group_perms[u] \cup user_perms[u]
            /\ \A i, j \in 1..Len(ps) : ps[i] = ps[j] => i = j

\* C10 witness: a user was serialized whose group and user permissions
\* overlap without being equal.
C10_Witness ==
    /\ user_serializer_data # NoData
    /\ LET u == user_serializer_data.id
       IN  /\ group_perms[u] \cap user_perms[u] # {}
           /\ group_perms[u] # user_perms[u]
           /\ Len(user_serializer_data.permissions) > 1

====
